---- MODULE Spec2Model ----
(***************************************************************************)
(* The provably-fair round verifier of src/anu.py: the pure functions      *)
(* sha256_hex, hmac_sha256_hex, roll_from_seeds, compute_commitment and    *)
(* verify_round, the command-line run of main(), and the module-level      *)
(* statements that follow the `if __name__ == "__main__"` block in the     *)
(* same file.                                                              *)
(*                                                                         *)
(* Representation.  A Python str is a sequence of one-character strings,   *)
(* a bytes object a sequence of numbers 0..255.  An optional value is      *)
(* None (the empty tuple) or Some(x) (a one-element tuple).  A line of     *)
(* output is a record of the format text and the rendered fields.  The     *)
(* float roll100 / 100.0 is kept as the integer number of hundredths.      *)
(*                                                                         *)
(* hashlib.sha256 and hmac.new are library functions.  Each is an          *)
(* arbitrary function that is fixed for a behaviour: Init draws it.        *)
(***************************************************************************)
EXTENDS Integers, Sequences, FiniteSets, TLC

VARIABLES
    CLIENT_SEED,            \* module global, line 30
    PUBLISHED_COMMITMENT,   \* module global, line 31
    sha256,                 \* hashlib.sha256: bytes -> 32-byte digest
    hmacsha256,             \* hmac.new(key, msg, sha256): digest per bucket of (key, msg)
    argv,                   \* the command line: each flag absent or given as text
    args,                   \* argparse's namespace after parse_args()
    pc,                     \* position of the run
    stdout,                 \* lines printed so far
    stderr,                 \* lines written to standard error so far
    exitCode,               \* None while running, Some(code) once the process ended
    files,                  \* names of the files the run has written
    calls,                  \* functions of the verifier invoked so far, in order
    last,                   \* library use: the latest invocation and its result
    earlier                 \* library use: some invocation made before `last`

vars == <<CLIENT_SEED, PUBLISHED_COMMITMENT, sha256, hmacsha256,
          argv, args, pc, stdout, stderr, exitCode, files, calls, last, earlier>>

globals == <<CLIENT_SEED, PUBLISHED_COMMITMENT>>

-----------------------------------------------------------------------------
(* Bounds and sample inputs *)

\* longest client seed drawn over ClientAlphabet
MaxLen == 1

\* largest nonce drawn (two decimal digits, so that "1"+"1" and ""+"11" meet)
MaxNonce == 11

None == <<>>
Some(x) == <<x>>

ClientAlphabet == {":", "1"}

RECURSIVE SeqsUpTo(_, _)
SeqsUpTo(S, n) ==
    IF n = 0 THEN {<<>>}
    ELSE LET shorter == SeqsUpTo(S, n - 1)
         IN shorter \cup {Append(s, c) : s \in {t \in shorter : Len(t) = n - 1}, c \in S}

ClientSeeds == SeqsUpTo(ClientAlphabet, MaxLen)

Nonces == {-1, 0, 1, MaxNonce}

ServerSeeds == {<<>>, <<"a", "b", "c", "1", "2", "3">>}

-----------------------------------------------------------------------------
(* Text and bytes *)

Digits == <<"0", "1", "2", "3", "4", "5", "6", "7", "8", "9">>
HexDigits == <<"0", "1", "2", "3", "4", "5", "6", "7", "8", "9",
               "a", "b", "c", "d", "e", "f">>
UpperHexDigits == <<"0", "1", "2", "3", "4", "5", "6", "7", "8", "9",
                    "A", "B", "C", "D", "E", "F">>

IsDigit(c) == \E i \in 1..10 : Digits[i] = c
DigitVal(c) == (CHOOSE i \in 1..10 : Digits[i] = c) - 1
HexVal(c) == (CHOOSE i \in 1..16 : HexDigits[i] = c) - 1

\* str.encode('utf-8') on the ASCII characters the inputs are drawn from
Ord(c) ==
    CASE c = "-" -> 45 [] c = ":" -> 58
      [] IsDigit(c) -> 48 + DigitVal(c)
      [] c = "X" -> 88 [] c = "Y" -> 89
      [] c = "a" -> 97 [] c = "b" -> 98 [] c = "c" -> 99 [] c = "d" -> 100
      [] c = "f" -> 102 [] c = "p" -> 112 [] c = "v" -> 118 [] c = "x" -> 120

Utf8(s) == [i \in 1..Len(s) |-> Ord(s[i])]

\* bytes.hex() / hexdigest(): two lowercase hex digits per byte
ToHex(bytes) ==
    [i \in 1..(2 * Len(bytes)) |->
        IF i % 2 = 1 THEN HexDigits[(bytes[(i + 1) \div 2] \div 16) + 1]
        ELSE HexDigits[(bytes[i \div 2] % 16) + 1]]

\* binascii.unhexlify on an even-length lowercase hex string
Unhexlify(hex) ==
    [i \in 1..(Len(hex) \div 2) |-> 16 * HexVal(hex[2 * i - 1]) + HexVal(hex[2 * i])]

\* str.upper() on a hex string
Upper(hex) ==
    [i \in 1..Len(hex) |-> UpperHexDigits[HexVal(hex[i]) + 1]]

\* str(n) for an int: canonical decimal, '-' for negatives
RECURSIVE StrNat(_)
StrNat(n) ==
    IF n < 10 THEN <<Digits[n + 1]>>
    ELSE Append(StrNat(n \div 10), Digits[(n % 10) + 1])

Str(n) == IF n < 0 THEN <<"-">> \o StrNat(-n) ELSE StrNat(n)

\* int(text) as argparse's type=int applies it: an optional sign and digits
IsIntText(t) ==
    LET body == IF Len(t) > 0 /\ t[1] \in {"-", "+"} THEN Tail(t) ELSE t
    IN Len(body) > 0 /\ \A i \in 1..Len(body) : IsDigit(body[i])

RECURSIVE NatOf(_)
NatOf(t) ==
    IF t = <<>> THEN 0
    ELSE 10 * NatOf(SubSeq(t, 1, Len(t) - 1)) + DigitVal(t[Len(t)])

IntOf(t) ==
    IF t[1] = "-" THEN 0 - NatOf(Tail(t))
    ELSE IF t[1] = "+" THEN NatOf(Tail(t))
    ELSE NatOf(t)

\* f"{roll:.2f}" for roll = k / 100.0, 0 <= k
Format2f(k) ==
    StrNat(k \div 100) \o <<".", Digits[((k \div 10) % 10) + 1], Digits[(k % 10) + 1]>>

\* one printed line: the format text and its rendered fields
Line(fmt, fields) == [fmt |-> fmt, fields |-> fields]

-----------------------------------------------------------------------------
(* Module constants, lines 30-31 *)

ClientSeedValue == <<"p", "x", "f", "v", "6", "p", "d", "Y", "0", "X">>

PublishedDigest ==
    <<102, 145, 179, 168, 184, 155, 150, 41, 42, 159, 147, 3, 67, 175, 70, 144,
      221, 72, 146, 219, 41, 213, 175, 135, 172, 111, 111, 75, 206, 52, 111, 207>>

PublishedCommitmentValue == ToHex(PublishedDigest)

-----------------------------------------------------------------------------
(* The library hash functions *)

\* another SHA-256 value: that of b"abc123"
OtherDigest ==
    <<108, 161, 61, 82, 202, 112, 200, 131, 224, 240, 187, 16, 30, 66, 90, 137,
      232, 98, 77, 229, 29, 178, 210, 57, 37, 147, 175, 106, 132, 17, 128, 144>>

ShaDigests == {PublishedDigest, OtherDigest}

Filler(b) == [i \in 1..24 |-> b]

\* HMAC digests whose first 8 bytes are 0, 2^64 - 1 and 9999
HmacDigests ==
    { [i \in 1..8 |-> 0] \o Filler(0),
      [i \in 1..8 |-> 255] \o Filler(255),
      <<0, 0, 0, 0, 0, 0, 39, 15>> \o Filler(171) }

RECURSIVE SumBytes(_)
SumBytes(bytes) == IF bytes = <<>> THEN 0 ELSE Head(bytes) + SumBytes(Tail(bytes))

Buckets == {0, 1}

\* the class of a (key, message) pair the modelled HMAC distinguishes
Bucket(key, message) == (Len(key) + SumBytes(message)) % Cardinality(Buckets)

ShaInputs == {Utf8(s) : s \in ServerSeeds}

OraclesInit ==
    /\ sha256 \in [ShaInputs -> ShaDigests]
    /\ hmacsha256 \in [Buckets -> HmacDigests]

-----------------------------------------------------------------------------
(* The verifier's functions, lines 34-71 *)

sha256_hex(s) == ToHex(sha256[Utf8(s)])

hmac_sha256_hex(key, message) ==
    ToHex(hmacsha256[Bucket(Utf8(key), Utf8(message))])

\* line 48: f"{client_seed}:{nonce}"
RollMessageNoSeparator(client_seed, nonce) == client_seed \o Str(nonce)

RollMessage(client_seed, nonce) == client_seed \o <<":">> \o Str(nonce)

\* int.from_bytes(part, byteorder='big') % m.  Python's int is unbounded and
\* the 64-bit value does not fit TLC's 32-bit integers, so the value is
\* carried modulo m through the big-endian accumulation.
RECURSIVE FromBytesBigMod(_, _)
FromBytesBigMod(bytes, m) ==
    IF bytes = <<>> THEN 0
    ELSE (FromBytesBigMod(SubSeq(bytes, 1, Len(bytes) - 1), m) * 256
          + bytes[Len(bytes)]) % m

RECURSIVE FromBytesLittleMod(_, _)
FromBytesLittleMod(bytes, m) ==
    IF bytes = <<>> THEN 0
    ELSE (FromBytesLittleMod(Tail(bytes), m) * 256 + Head(bytes)) % m

RollLittleEndian(server_seed, client_seed, nonce) ==
    LET hmac_bytes == Unhexlify(hmac_sha256_hex(server_seed, RollMessage(client_seed, nonce)))
    IN FromBytesLittleMod(SubSeq(hmac_bytes, 1, 8), 10000)

\* lines 41-55; the result is roll100, standing for the float roll100 / 100.0
roll_from_seeds(server_seed, client_seed, nonce) ==
    LET message == RollMessage(client_seed, nonce)
        hmac_hex == hmac_sha256_hex(server_seed, message)
        hmac_bytes == Unhexlify(hmac_hex)
        part == SubSeq(hmac_bytes, 1, 8)
        roll100 == FromBytesBigMod(part, 10000)
    IN roll100

compute_commitment(server_seed) == sha256_hex(server_seed)

VerifyHead(published_commitment, computed_commit) ==
    << Line("Published commitment: {}", <<published_commitment>>),
       Line("Computed commitment:  {}", <<computed_commit>>) >>

RollLine(client_seed, nonce, roll) ==
    Line("Deterministic roll for client_seed='{}', nonce={} -> {:.2f}",
         <<client_seed, Str(nonce), Format2f(roll)>>)

FailedLines ==
    << Line("", <<>>),
       Line(">>> VERIFICATION FAILED: The provided server_seed does NOT match the published commitment.", <<>>) >>

VerifiedLines ==
    << Line("", <<>>),
       Line("Commitment verified: server_seed matches the published commitment.", <<>>) >>

\* the comparison made against the module global instead of the argument
VerifyRoundAgainstGlobal(published_commitment, server_seed, client_seed, nonce) ==
    LET computed_commit == compute_commitment(server_seed)
        head == VerifyHead(published_commitment, computed_commit)
    IN IF computed_commit # PUBLISHED_COMMITMENT
       THEN [ret |-> FALSE, out |-> head \o FailedLines,
             trace |-> <<"compute_commitment">>]
       ELSE [ret |-> TRUE,
             out |-> head \o VerifiedLines
                     \o <<RollLine(client_seed, nonce,
                                   roll_from_seeds(server_seed, client_seed, nonce))>>,
             trace |-> <<"compute_commitment", "roll_from_seeds">>]

\* the roll computed and printed before the commitment is compared
VerifyRoundRollFirst(published_commitment, server_seed, client_seed, nonce) ==
    LET computed_commit == compute_commitment(server_seed)
        head == VerifyHead(published_commitment, computed_commit)
        rolled == <<RollLine(client_seed, nonce,
                             roll_from_seeds(server_seed, client_seed, nonce))>>
    IN IF computed_commit # published_commitment
       THEN [ret |-> FALSE, out |-> head \o rolled \o FailedLines,
             trace |-> <<"compute_commitment", "roll_from_seeds">>]
       ELSE [ret |-> TRUE, out |-> head \o rolled \o VerifiedLines,
             trace |-> <<"compute_commitment", "roll_from_seeds">>]

\* lines 60-71: the value returned, the lines printed, the functions called
verify_round(published_commitment, server_seed, client_seed, nonce) ==
    LET computed_commit == compute_commitment(server_seed)
        head == VerifyHead(published_commitment, computed_commit)
    IN IF computed_commit # published_commitment
       THEN [ret |-> FALSE, out |-> head \o FailedLines,
             trace |-> <<"compute_commitment">>]
       ELSE [ret |-> TRUE,
             out |-> head \o VerifiedLines
                     \o <<RollLine(client_seed, nonce,
                                   roll_from_seeds(server_seed, client_seed, nonce))>>,
             trace |-> <<"compute_commitment", "roll_from_seeds">>]

-----------------------------------------------------------------------------
(* One invocation of a verifier function, as a caller observes it *)

Result(call) ==
    CASE call.fn = "compute_commitment" ->
           [ret |-> compute_commitment(call.args[1]), out |-> <<>>,
            trace |-> <<"sha256_hex">>]
      [] call.fn = "roll_from_seeds" ->
           [ret |-> roll_from_seeds(call.args[1], call.args[2], call.args[3]),
            out |-> <<>>, trace |-> <<"hmac_sha256_hex">>]
      [] call.fn = "verify_round" ->
           verify_round(call.args[1], call.args[2], call.args[3], call.args[4])

Invocation(call) ==
    LET r == Result(call)
    IN [fn |-> call.fn, args |-> call.args, ret |-> r.ret, out |-> r.out,
        trace |-> r.trace]

-----------------------------------------------------------------------------
(* The command-line run, lines 73-100, and the statements after it *)

NonceTexts == {Str(n) : n \in Nonces} \cup {<<"x">>}

PublishedTexts == {Upper(PublishedCommitmentValue)}

Optional(S) == {None} \cup {Some(x) : x \in S}

Argvs ==
    [server : Optional(ServerSeeds), nonce : Optional(NonceTexts),
     client : Optional(ClientSeeds), published : Optional(PublishedTexts)]

\* line 76: default=1
DefaultNonce == 1

Idle ==
    /\ stdout = <<>>
    /\ stderr = <<>>
    /\ exitCode = None
    /\ files = {}
    /\ calls = <<>>
    /\ last = None
    /\ earlier = None
    /\ args = None

GlobalsInit ==
    /\ CLIENT_SEED = ClientSeedValue
    /\ PUBLISHED_COMMITMENT = PublishedCommitmentValue

Init ==
    /\ GlobalsInit
    /\ OraclesInit
    /\ argv \in Argvs
    /\ pc = "start"
    /\ Idle

NonceMalformed == argv.nonce # None /\ ~IsIntText(argv.nonce[1])

\* line 79, parse_args() rejecting the nonce: usage on stderr, exit status 2
ParseArgsUsageError ==
    /\ pc = "start"
    /\ NonceMalformed
    /\ stderr' = stderr \o <<Line("usage: ...", <<>>),
                             Line("error: argument --nonce/-n: invalid int value: '{}'",
                                  <<argv.nonce[1]>>)>>
    /\ exitCode' = Some(2)
    /\ pc' = "exited"
    /\ UNCHANGED <<globals, sha256, hmacsha256, argv, args, stdout, files, calls,
                   last, earlier>>

\* lines 74-79
ParseArgs ==
    /\ pc = "start"
    /\ ~NonceMalformed
    /\ args' = Some([server |-> argv.server,
                     nonce |-> IF argv.nonce = None THEN DefaultNonce
                               ELSE IntOf(argv.nonce[1]),
                     client |-> IF argv.client = None THEN CLIENT_SEED
                                ELSE argv.client[1],
                     published |-> IF argv.published = None THEN PUBLISHED_COMMITMENT
                                   ELSE argv.published[1]])
    /\ pc' = "header"
    /\ UNCHANGED <<globals, sha256, hmacsha256, argv, stdout, stderr, exitCode, files,
                   calls, last, earlier>>

HeaderLines(a) ==
    << Line("=== Provably-Fair Verifier ===", <<>>),
       Line("Using client seed: {}", <<a.client>>),
       Line("Using published commitment: {}", <<a.published>>),
       Line("", <<>>) >>

InfoLines ==
    << Line("No server seed provided. To verify a round, run with --server \"REVEALED_SERVER_SEED\"", <<>>),
       Line("Example:", <<>>),
       Line("  python verify_round_with_your_seeds.py --server \"your-server-seed-here\" --nonce 1", <<>>) >>

PrintTitleOnly ==
    /\ pc = "header"
    /\ stdout' = stdout \o <<Line("=== Provably-Fair Verifier ===", <<>>)>>
    /\ pc' = "branch"
    /\ UNCHANGED <<globals, sha256, hmacsha256, argv, args, stderr, exitCode, files,
                   calls, last, earlier>>

\* lines 81-84
PrintHeader ==
    /\ pc = "header"
    /\ stdout' = stdout \o HeaderLines(args[1])
    /\ pc' = "branch"
    /\ UNCHANGED <<globals, sha256, hmacsha256, argv, args, stderr, exitCode, files,
                   calls, last, earlier>>

ServerIsNone == args[1].server = None

\* line 86, `not args.server`: None and the empty string are both false
ServerMissing ==
    IF args[1].server = None THEN TRUE ELSE args[1].server[1] = <<>>

\* lines 86-90
NoServerExit ==
    /\ pc = "branch"
    /\ ServerMissing
    /\ stdout' = stdout \o InfoLines
    /\ exitCode' = Some(0)
    /\ pc' = "exited"
    /\ UNCHANGED <<globals, sha256, hmacsha256, argv, args, stderr, files, calls,
                   last, earlier>>

\* line 93
Verify ==
    /\ pc = "branch"
    /\ ~ServerMissing
    /\ LET a == args[1]
           inv == Invocation([fn |-> "verify_round",
                              args |-> <<a.published, a.server[1], a.client, a.nonce>>])
       IN /\ stdout' = stdout \o inv.out
          /\ calls' = calls \o <<"verify_round">> \o inv.trace
          /\ last' = Some(inv)
    /\ pc' = "verified"
    /\ UNCHANGED <<globals, sha256, hmacsha256, argv, args, stderr, exitCode, files,
                   earlier>>

\* lines 94-97; main() then returns and the module's execution goes on
Report ==
    /\ pc = "verified"
    /\ stdout' = stdout \o
         (IF last[1].ret
          THEN <<Line("", <<>>), Line("Verification completed successfully.", <<>>)>>
          ELSE <<Line("", <<>>),
                 Line("Verification FAILED. Do not trust the result if server seed and published commitment mismatch.", <<>>)>>)
    /\ pc' = "tail"
    /\ UNCHANGED <<globals, sha256, hmacsha256, argv, args, stderr, exitCode, files,
                   calls, last, earlier>>

Traceback(what) == <<Line("Traceback (most recent call last):", <<>>), Line(what, <<>>)>>

Raise(what) ==
    /\ stderr' = stderr \o Traceback(what)
    /\ exitCode' = Some(1)
    /\ pc' = "exited"
    /\ UNCHANGED <<globals, sha256, hmacsha256, argv, args, stdout, files, calls,
                   last, earlier>>

\* line 101, the package being absent
ImportFpdfFails ==
    /\ pc = "tail"
    /\ Raise("ModuleNotFoundError: No module named 'fpdf'")

\* line 101, the package being present
ImportFpdf ==
    /\ pc = "tail"
    /\ pc' = "report1"
    /\ UNCHANGED <<globals, sha256, hmacsha256, argv, args, stdout, stderr, exitCode,
                   files, calls, last, earlier>>

\* lines 104-177, pdf.output writing the document
WriteReport1 ==
    /\ pc = "report1"
    /\ files' = files \cup {"Tulsi_Report.pdf"}
    /\ stdout' = stdout \o <<Line("Tulsi_Report.pdf created successfully!", <<>>)>>
    /\ pc' = "report2"
    /\ UNCHANGED <<globals, sha256, hmacsha256, argv, args, stderr, exitCode, calls,
                   last, earlier>>

\* lines 104-176, a call into the package raising
Report1Raises ==
    /\ pc = "report1"
    /\ Raise("fpdf error")

\* lines 179-256, then the end of the module: exit status 0
WriteReport2 ==
    /\ pc = "report2"
    /\ files' = files \cup {"Tulsi_Report_Anushka.pdf"}
    /\ stdout' = stdout \o <<Line("Tulsi_Report_Anushka.pdf created successfully!", <<>>)>>
    /\ exitCode' = Some(0)
    /\ pc' = "exited"
    /\ UNCHANGED <<globals, sha256, hmacsha256, argv, args, stderr, calls, last,
                   earlier>>

\* lines 182-255, a call into the package raising
Report2Raises ==
    /\ pc = "report2"
    /\ Raise("fpdf error")

Next ==
    \/ ParseArgsUsageError
    \/ ParseArgs
    \/ PrintHeader
    \/ NoServerExit
    \/ Verify
    \/ Report
    \/ ImportFpdfFails
    \/ ImportFpdf
    \/ WriteReport1
    \/ Report1Raises
    \/ WriteReport2
    \/ Report2Raises

Spec == Init /\ [][Next]_vars

-----------------------------------------------------------------------------
(* The functions used as a library: any sequence of invocations *)

LibClientSeeds == {ClientSeedValue}

LibNonces == {-1, 1}

LibPublished == {ToHex(OtherDigest), Upper(ToHex(OtherDigest))}

LibInit ==
    /\ GlobalsInit
    /\ OraclesInit
    /\ argv = None
    /\ pc = "imported"
    /\ Idle

InvokeRebindingGlobal(call) ==
    /\ last' = Some(Invocation(call))
    /\ earlier' \in {earlier, last}
    /\ PUBLISHED_COMMITMENT' = IF call.fn = "verify_round"
                               THEN compute_commitment(call.args[2])
                               ELSE PUBLISHED_COMMITMENT
    /\ UNCHANGED <<CLIENT_SEED, sha256, hmacsha256, argv, args, pc, stdout, stderr,
                   exitCode, files, calls>>

\* a caller invokes a function; `earlier` keeps or takes the invocation before
Invoke(call) ==
    /\ last' = Some(Invocation(call))
    /\ earlier' \in {earlier, last}
    /\ UNCHANGED <<globals, sha256, hmacsha256, argv, args, pc, stdout, stderr,
                   exitCode, files, calls>>

CallComputeCommitment ==
    /\ pc = "imported"
    /\ \E s \in ServerSeeds :
         Invoke([fn |-> "compute_commitment", args |-> <<s>>])

CallRollFromSeeds ==
    /\ pc = "imported"
    /\ \E s \in ServerSeeds, c \in LibClientSeeds, n \in LibNonces :
         Invoke([fn |-> "roll_from_seeds", args |-> <<s, c, n>>])

CallVerifyRound ==
    /\ pc = "imported"
    /\ \E p \in LibPublished, s \in ServerSeeds, c \in LibClientSeeds, n \in LibNonces :
         Invoke([fn |-> "verify_round", args |-> <<p, s, c, n>>])

LibNext ==
    \/ CallComputeCommitment
    \/ CallRollFromSeeds
    \/ CallVerifyRound

LibSpec == LibInit /\ [][LibNext]_vars

-----------------------------------------------------------------------------
(* Properties *)

Called(f) == \E i \in 1..Len(calls) : calls[i] = f

Occurrences(seq, x) == Cardinality({i \in 1..Len(seq) : seq[i] = x})

LinesWith(out, fmt) == {i \in 1..Len(out) : out[i].fmt = fmt}

RollFmt == "Deterministic roll for client_seed='{}', nonce={} -> {:.2f}"

LastIs(f) == IF last = None THEN FALSE ELSE last[1].fn = f

\* C1: verify_round(P, S, C, N) returns True if and only if
\* compute_commitment(S) equals P character for character, and False in
\* every other case.
C1_ValidIffCommitmentEqual ==
    LastIs("verify_round") =>
        LET inv == last[1]
        IN /\ inv.ret \in BOOLEAN
           /\ inv.ret <=> (compute_commitment(inv.args[2]) = inv.args[1])

C1_Witness ==
    /\ LastIs("verify_round")
    /\ last[1].ret = TRUE
    /\ last[1].args[1] = ToHex(OtherDigest)

\* C2: in verify_round the roll is computed and printed exactly when the
\* commitments are equal: on a mismatch roll_from_seeds is not invoked and no
\* roll line is printed; on a match it is invoked once and the one roll line
\* comes after the published and computed commitment lines and after the
\* "Commitment verified" line.
C2_RollOnlyOnMatch ==
    LastIs("verify_round") =>
        LET inv == last[1]
            rolls == LinesWith(inv.out, RollFmt)
            match == compute_commitment(inv.args[2]) = inv.args[1]
        IN IF ~match
           THEN /\ rolls = {}
                /\ Occurrences(inv.trace, "roll_from_seeds") = 0
           ELSE /\ Cardinality(rolls) = 1
                /\ Occurrences(inv.trace, "roll_from_seeds") = 1
                /\ \A r \in rolls :
                     /\ \E i \in 1..(r - 1) : inv.out[i].fmt = "Published commitment: {}"
                     /\ \E i \in 1..(r - 1) : inv.out[i].fmt = "Computed commitment:  {}"
                     /\ \E i \in 1..(r - 1) :
                          inv.out[i].fmt = "Commitment verified: server_seed matches the published commitment."
                     /\ inv.out[r] = RollLine(inv.args[3], inv.args[4],
                                              roll_from_seeds(inv.args[2], inv.args[3],
                                                              inv.args[4]))

C2_Witness ==
    /\ LastIs("verify_round")
    /\ LinesWith(last[1].out, RollFmt) = {5}
    /\ Len(last[1].out) = 5

\* 256^(8-i) mod 10000, the weight of byte i of an 8-byte big-endian number
Weights == <<7936, 656, 7776, 7296, 7216, 5536, 256, 1>>

ValueMod10000(part) ==
    (part[1] * Weights[1] + part[2] * Weights[2] + part[3] * Weights[3]
     + part[4] * Weights[4] + part[5] * Weights[5] + part[6] * Weights[6]
     + part[7] * Weights[7] + part[8] * Weights[8]) % 10000

HmacDigestOf(server_seed, client_seed, nonce) ==
    hmacsha256[Bucket(Utf8(server_seed), Utf8(client_seed \o <<":">> \o Str(nonce)))]

\* C3: roll_from_seeds returns k/100 with k an integer, 0 <= k <= 9999 and
\* k = V mod 10000, V the unsigned big-endian value of the first 8 bytes of
\* the HMAC digest, for every V in 0..2^64-1; printed with two decimals.
C3_RollInRange ==
    LastIs("roll_from_seeds") =>
        LET inv == last[1]
            digest == HmacDigestOf(inv.args[1], inv.args[2], inv.args[3])
        IN /\ inv.ret \in 0..9999
           /\ inv.ret = ValueMod10000(SubSeq(digest, 1, 8))
           /\ LET text == Format2f(inv.ret)
              IN /\ text[Len(text) - 2] = "."
                 /\ IsDigit(text[Len(text) - 1])
                 /\ IsDigit(text[Len(text)])

\* V = 2^64 - 1 gives 1615; V = 9999 gives the largest outcome
C3_Witness ==
    /\ LastIs("roll_from_seeds")
    /\ \A i \in 1..8 :
         HmacDigestOf(last[1].args[1], last[1].args[2], last[1].args[3])[i] = 255
    /\ last[1].ret = 1615
    /\ last[1].args[3] < 0

NonceGiven == IF argv.nonce = None THEN FALSE ELSE IsIntText(argv.nonce[1])

NonceNegative == IF NonceGiven THEN IntOf(argv.nonce[1]) < 0 ELSE FALSE

UsageError == pc = "exited" /\ exitCode = Some(2)

\* C4: a nonce of 0 is accepted, and every negative nonce is rejected as a
\* usage error: with a negative nonce the run never reaches verification and
\* no roll is computed.
C4_NegativeNonceRejected ==
    /\ NonceNegative => (calls = <<>> /\ last = None)
    /\ argv.nonce = Some(<<"0">>) => ~UsageError

\* C5: every run with well-formed arguments ends with exit status 0, on the
\* no-server path, after a successful and after a failed verification.
C5_ExitStatusZero ==
    (pc = "exited" /\ ~NonceMalformed) => exitCode = Some(0)

RunEndedNormally == pc = "exited" /\ ~UsageError

\* C7: without --server, main prints the client seed and the published
\* commitment in use and exits with status 0 without calling verify_round,
\* compute_commitment or roll_from_seeds; with a server seed, the header
\* lines are on standard output before verification starts.
C7_NoServerNoVerification ==
    /\ argv.server = None =>
         /\ calls = <<>>
         /\ last = None
         /\ RunEndedNormally =>
              /\ stdout = HeaderLines(args[1]) \o InfoLines
              /\ exitCode = Some(0)
    /\ pc = "branch" => stdout = HeaderLines(args[1])
    /\ calls # <<>> =>
         /\ Len(stdout) > 4
         /\ SubSeq(stdout, 1, 4) = HeaderLines(args[1])
         /\ \A i \in 1..4 : stdout[i].fmt # "Published commitment: {}"

C7_Witness ==
    /\ argv.server = None
    /\ argv.client = Some(<<":">>)
    /\ pc = "exited"
    /\ Len(stdout) = 7
    /\ stdout[2] = Line("Using client seed: {}", << <<":">> >>)

SameCall(a, b) ==
    IF a.fn = b.fn THEN a.args = b.args ELSE FALSE

Deterministic ==
    (earlier # None /\ last # None) =>
        (SameCall(earlier[1], last[1]) =>
            /\ earlier[1].ret = last[1].ret
            /\ earlier[1].out = last[1].out
            /\ earlier[1].trace = last[1].trace)

C9_MessageInjective ==
    Called("roll_from_seeds") =>
        \A c \in ClientSeeds \cup {CLIENT_SEED}, n \in Nonces \cup {DefaultNonce} :
            RollMessage(c, n) = RollMessage(args[1].client, args[1].nonce)
                => (c = args[1].client /\ n = args[1].nonce)

C9_Witness ==
    /\ Called("roll_from_seeds")
    /\ args[1].client = <<":">>
    /\ args[1].nonce = MaxNonce

ServerNonEmpty == IF argv.server = None THEN FALSE ELSE argv.server[1] # <<>>

PastBranch == pc \in {"verified", "tail", "report1", "report2"} \/ RunEndedNormally

\* C10: main performs verification if and only if the server seed is a
\* non-empty string; --server "" is treated like an omitted flag:
\* informational output, exit status 0, no commitment comparison.
C10_VerifiesIffServerNonEmpty ==
    /\ PastBranch => (Called("verify_round") <=> ServerNonEmpty)
    /\ (argv.server = Some(<<>>) /\ RunEndedNormally) =>
         /\ stdout = HeaderLines(args[1]) \o InfoLines
         /\ exitCode = Some(0)
         /\ calls = <<>>
         /\ last = None

C10_Witness ==
    /\ argv.server = Some(<<>>)
    /\ pc = "exited"
    /\ exitCode = Some(0)
    /\ stdout # <<>>

====
